---- MODULE Spec2Model ----
(***************************************************************************)
(* Model of sockeye/convolution.py: ConvolutionConfig and ConvolutionBlock. *)
(*                                                                         *)
(* Tensors are records [shape, val]: shape is a triple of dimensions and   *)
(* val maps every 0-based index triple to an element.  The tensor          *)
(* operators (swapaxes, SequenceMask, transpose, Convolution, slice_axis,  *)
(* split, Activation, broadcast_mul) are computed element by element, as   *)
(* the calls in ConvolutionBlock.__call__ use them.                        *)
(***************************************************************************)
EXTENDS Integers, Sequences, FiniteSets, TLC

\* ---------------------------------------------------------------- bounds
MaxKernel == 4
MaxHidden == 2
MaxBatch == 2
MaxSeqLen == 2

\* ------------------------------------------------------------- constants
\* sockeye/constants.py is not part of the sources at hand: the supported
\* activation set and its default are taken from the specification.
C_GLU == "glu"
CNN_ACTIVATION_TYPES == {"glu", "relu", "sigmoid", "softrelu", "tanh"}

\* argument values tried at the constructors
Omitted == "<omitted>"
ActTypeArgs == CNN_ACTIVATION_TYPES \cup {"relu_invalid", Omitted}
PadTypeArgs == {"left", "centered", "right"}

\* ------------------------------------------------------- tensor helpers
Idx(sh) == {<<i, j, k>> : i \in 0 .. sh[1] - 1, j \in 0 .. sh[2] - 1, k \in 0 .. sh[3] - 1}

MkTensor(sh, F(_, _, _)) == [shape |-> sh, val |-> [ix \in Idx(sh) |-> F(ix[1], ix[2], ix[3])]]

At(x, i, j, k) == x.val[<<i, j, k>>]

EmptyTensor == [shape |-> <<0, 0, 0>>, val |-> [ix \in {} |-> 0]]

\* mx.sym.transpose(x, axes): output axis n is input axis axes[n]
transpose(x, axes) ==
    LET src(ix, m) == ix[CHOOSE n \in 1 .. 3 : axes[n] = m - 1]
    IN  [shape |-> <<x.shape[axes[1] + 1], x.shape[axes[2] + 1], x.shape[axes[3] + 1]>>,
         val |-> [ix \in Idx(<<x.shape[axes[1] + 1], x.shape[axes[2] + 1], x.shape[axes[3] + 1]>>)
                    |-> x.val[<<src(ix, 1), src(ix, 2), src(ix, 3)>>]]]

\* mx.sym.swapaxes(x, dim1, dim2)
swapaxes(x, dim1, dim2) ==
    transpose(x, [n \in 1 .. 3 |-> IF n - 1 = dim1 THEN dim2
                                     ELSE IF n - 1 = dim2 THEN dim1 ELSE n - 1])

\* mx.sym.SequenceMask on time-major data (seq_len, batch, hidden)
SequenceMask(x, sequence_length, use_sequence_length, value) ==
    MkTensor(x.shape, LAMBDA t, b, c :
        IF use_sequence_length /\ t >= sequence_length[b] THEN value ELSE At(x, t, b, c))

\* owned parameters: conv_weight (num_filter, channels, kernel), conv_bias (num_filter)
conv_weight(f, c, k) == 1 + ((f + c + k) % 2)
conv_bias(f) == f

PadOf(pad) == IF pad = <<>> THEN 0 ELSE pad[1]

RECURSIVE ConvSum(_, _, _, _, _, _, _)
\* sum over the first n (channel, tap) pairs of weight * zero-padded input
ConvSum(x, b, f, t, p, kernel, n) ==
    IF n = 0 THEN 0
    ELSE LET c == (n - 1) \div kernel
             k == (n - 1) % kernel
             w == t + k - p
             v == IF w >= 0 /\ w < x.shape[3] THEN At(x, b, c, w) ELSE 0
         IN  conv_weight(f, c, k) * v + ConvSum(x, b, f, t, p, kernel, n - 1)

ConvOutLen(width, pad, kernel) == width + 2 * PadOf(pad) - kernel + 1

\* mx.sym.Convolution(data, weight, bias, pad, kernel, num_filter, layout="NCW")
Convolution(x, pad, kernel, num_filter) ==
    MkTensor(<<x.shape[1], num_filter, ConvOutLen(x.shape[3], pad, kernel)>>,
             LAMBDA b, f, t :
                conv_bias(f) + ConvSum(x, b, f, t, PadOf(pad), kernel, x.shape[2] * kernel))

\* mx.sym.slice_axis(data, axis=2, begin, end)
slice_axis2(x, begin, end) ==
    MkTensor(<<x.shape[1], x.shape[2], end - begin>>, LAMBDA b, c, t : At(x, b, c, t + begin))

\* mx.sym.split(data, num_outputs=2, axis=1): the two halves along the channel axis
split2(x) ==
    LET h == x.shape[2] \div 2
    IN  <<MkTensor(<<x.shape[1], h, x.shape[3]>>, LAMBDA b, c, t : At(x, b, c, t)),
          MkTensor(<<x.shape[1], h, x.shape[3]>>, LAMBDA b, c, t : At(x, b, c + h, t))>>

\* mx.sym.Activation: relu is computed; the transcendental activations are
\* kept as terms over their argument
Activation(x, act_type) ==
    MkTensor(x.shape, LAMBDA b, c, t :
        IF act_type = "relu"
        THEN (IF At(x, b, c, t) > 0 THEN At(x, b, c, t) ELSE 0)
        ELSE [act |-> act_type, of |-> At(x, b, c, t)])

\* mx.sym.broadcast_mul of two tensors of the same shape, kept as a product term
broadcast_mul(a, s) ==
    MkTensor(a.shape, LAMBDA b, c, t : [mul |-> At(a, b, c, t), by |-> At(s, b, c, t)])

\* ------------------------------------------------- pure parts of the code
\* mutant: the activation type is never checked
ActTypeAccepted_Any(act_type) == TRUE

\* ConvolutionConfig.__init__: the test utils.check_condition is given
ActTypeAccepted(act_type) == act_type \in CNN_ACTIVATION_TYPES

\* mutant: the odd-width check is applied to 'left' as well
PaddingFor_OddOnly(skip, pad_type, kernel_width) ==
    IF skip THEN [err |-> "none", padding |-> <<>>]
    ELSE IF pad_type \in {"left", "centered"}
         THEN IF kernel_width % 2 = 1
              THEN [err |-> "none",
                    padding |-> IF pad_type = "left" THEN <<kernel_width - 1>>
                                ELSE <<(kernel_width - 1) \div 2>>]
              ELSE [err |-> "SockeyeError", padding |-> <<>>]
    ELSE [err |-> "ValueError", padding |-> <<>>]

\* mutant: 'centered' without the odd-width check
PaddingFor_NoOddCheck(skip, pad_type, kernel_width) ==
    IF skip THEN [err |-> "none", padding |-> <<>>]
    ELSE IF pad_type = "left"
         THEN [err |-> "none", padding |-> <<kernel_width - 1>>]
    ELSE IF pad_type = "centered"
         THEN [err |-> "none", padding |-> <<(kernel_width - 1) \div 2>>]
    ELSE [err |-> "ValueError", padding |-> <<>>]

\* mutant: the pad configuration is checked before skip_padding is looked at
PaddingFor_CheckFirst(skip, pad_type, kernel_width) ==
    IF pad_type = "left"
    THEN [err |-> "none", padding |-> IF skip THEN <<>> ELSE <<kernel_width - 1>>]
    ELSE IF pad_type = "centered"
         THEN IF kernel_width % 2 = 1
              THEN [err |-> "none",
                    padding |-> IF skip THEN <<>> ELSE <<(kernel_width - 1) \div 2>>]
              ELSE [err |-> "SockeyeError", padding |-> <<>>]
    ELSE [err |-> "ValueError", padding |-> <<>>]

\* __call__, lines 75-87: the padding handed to the convolution, or the error
PaddingFor(skip, pad_type, kernel_width) ==
    IF skip THEN [err |-> "none", padding |-> <<>>]
    ELSE IF pad_type = "left"
         THEN [err |-> "none", padding |-> <<kernel_width - 1>>]
    ELSE IF pad_type = "centered"
         THEN IF kernel_width % 2 = 1
              THEN [err |-> "none", padding |-> <<(kernel_width - 1) \div 2>>]
              ELSE [err |-> "SockeyeError", padding |-> <<>>]
    ELSE [err |-> "ValueError", padding |-> <<>>]

\* mutant: the filters are not doubled for the gated linear unit
NumFilter_Same(act_type, num_hidden) == num_hidden

\* __call__, lines 89-92: the convolution's number of filters
NumFilter(act_type, num_hidden) == IF act_type = "glu" THEN 2 * num_hidden ELSE num_hidden

\* mutant: the mask ignores the sequence lengths
MaskStep_Unmasked(d, lengths) == SequenceMask(swapaxes(d, 0, 1), lengths, FALSE, 0)

\* __call__, lines 97-98: time-major swap, then the sequence mask
MaskStep(d, lengths) == SequenceMask(swapaxes(d, 0, 1), lengths, TRUE, 0)

\* __call__, line 103: (seq_len, batch, hidden) -> (batch, hidden, seq_len)
ToNCW(d) == transpose(d, <<1, 2, 0>>)

\* __call__, lines 104-110
ConvStep(d, pad, kernel_width, num_filter) == Convolution(d, pad, kernel_width, num_filter)

\* whether the kernel fits the padded input: __call__ builds the Convolution
\* symbol either way and returns; when the kernel does not fit, the symbol has
\* no time positions and MXNet cannot infer its shape later, outside the call
KernelFits(d, pad, kernel_width) == ConvOutLen(d.shape[3], pad, kernel_width) >= 1

\* mutant: the extra positions are never sliced off
SliceStep_KeepAll(d, skip, pad_type, len) == d

\* mutant: the slice keeps the last seq_len positions instead of the first
SliceStep_Tail(d, skip, pad_type, len) ==
    IF ~skip /\ pad_type = "left" THEN slice_axis2(d, d.shape[3] - len, d.shape[3]) ELSE d

\* __call__, lines 113-114
SliceStep(d, skip, pad_type, len) ==
    IF ~skip /\ pad_type = "left" THEN slice_axis2(d, 0, len) ELSE d

\* __call__, lines 116-126
ActStep(d, act_type) ==
    IF act_type = "glu"
    THEN LET gates == split2(d)
         IN  broadcast_mul(gates[1], Activation(gates[2], "sigmoid"))
    ELSE Activation(d, act_type)

\* __call__, line 129
ToBatchMajor(d) == swapaxes(d, 1, 2)

\* the whole of __call__ on a call that raises nothing
Forward(d, lengths, len, skip, pad_type, kernel_width, num_hidden, act_type) ==
    ToBatchMajor(ActStep(SliceStep(ConvStep(ToNCW(MaskStep(d, lengths)),
                                            PaddingFor(skip, pad_type, kernel_width).padding,
                                            kernel_width,
                                            NumFilter(act_type, num_hidden)),
                                   skip, pad_type, len),
                         act_type))

\* input batches (batch, seq_len, hidden) tried at the calls
\* (all elements distinct and nonzero, of both signs)
InputData(batch, len, hidden) ==
    MkTensor(<<batch, len, hidden>>, LAMBDA b, t, c :
        (IF (b + t + c) % 2 = 0 THEN 1 ELSE -1) * (1 + c + hidden * (t + len * b)))

\* ------------------------------------------------------------------ state
VARIABLES config, cfgArg, cfgErr, block, pc, data, data_length, seq_len,
          skip_padding, padding, num_filter, x, ops, err, inferable

vars == <<config, cfgArg, cfgErr, block, pc, data, data_length, seq_len,
          skip_padding, padding, num_filter, x, ops, err, inferable>>

NoConfig == [made |-> FALSE, kernel_width |-> 0, num_hidden |-> 0, act_type |-> ""]
NoBlock == [made |-> FALSE, pad_type |-> "", prefix |-> ""]

callVars == <<data, data_length, seq_len, skip_padding, padding, num_filter, x, ops, err,
              inferable>>

Init ==
    /\ config = NoConfig
    /\ cfgArg = ""
    /\ cfgErr = "none"
    /\ block = NoBlock
    /\ pc = "idle"
    /\ data = EmptyTensor
    /\ data_length = <<>>
    /\ seq_len = 0
    /\ skip_padding = FALSE
    /\ padding = <<>>
    /\ num_filter = 0
    /\ x = EmptyTensor
    /\ ops = <<>>
    /\ err = "none"
    /\ inferable = TRUE

\* ConvolutionConfig(kernel_width, num_hidden, act_type=C.GLU)
ConfigInit(kernel_width, num_hidden, act_arg) ==
    LET act_type == IF act_arg = Omitted THEN C_GLU ELSE act_arg
    IN  /\ ~config.made
        /\ block = NoBlock
        /\ cfgArg' = act_type
        /\ IF ActTypeAccepted(act_type)
           THEN /\ config' = [made |-> TRUE, kernel_width |-> kernel_width,
                              num_hidden |-> num_hidden, act_type |-> act_type]
                /\ cfgErr' = "none"
           ELSE /\ config' = NoConfig
                /\ cfgErr' = "SockeyeError"
        /\ UNCHANGED <<block, pc>>
        /\ UNCHANGED callVars

\* ConvolutionBlock(config, pad_type, prefix)
BlockInit(pad_type) ==
    /\ config.made
    /\ ~block.made
    /\ block' = [made |-> TRUE, pad_type |-> pad_type, prefix |-> "conv_"]
    /\ UNCHANGED <<config, cfgArg, cfgErr, pc>>
    /\ UNCHANGED callVars

\* block(data, data_length, seq_len, skip_padding): the arguments are bound
CallEnter(batch, len, lengths, skip) ==
    /\ block.made
    /\ pc = "idle"
    /\ data' = InputData(batch, len, config.num_hidden)
    /\ data_length' = lengths
    /\ seq_len' = len
    /\ skip_padding' = skip
    /\ x' = InputData(batch, len, config.num_hidden)
    /\ padding' = <<>>
    /\ num_filter' = 0
    /\ ops' = <<>>
    /\ err' = "none"
    /\ inferable' = TRUE
    /\ pc' = "padding"
    /\ UNCHANGED <<config, cfgArg, cfgErr, block>>

\* lines 75-87
DeterminePadding ==
    /\ pc = "padding"
    /\ LET r == PaddingFor(skip_padding, block.pad_type, config.kernel_width)
       IN  /\ padding' = r.padding
           /\ err' = r.err
           /\ pc' = IF r.err = "none" THEN "filters" ELSE "raised"
    /\ UNCHANGED <<config, cfgArg, cfgErr, block, data, data_length, seq_len,
                   skip_padding, num_filter, x, ops, inferable>>

\* lines 89-92
SelectNumFilter ==
    /\ pc = "filters"
    /\ num_filter' = NumFilter(config.act_type, config.num_hidden)
    /\ pc' = "mask"
    /\ UNCHANGED <<config, cfgArg, cfgErr, block, data, data_length, seq_len,
                   skip_padding, padding, x, ops, err, inferable>>

\* lines 97-98
MaskData ==
    /\ pc = "mask"
    /\ x' = MaskStep(x, data_length)
    /\ ops' = ops \o <<"swapaxes", "SequenceMask">>
    /\ pc' = "transpose"
    /\ UNCHANGED <<config, cfgArg, cfgErr, block, data, data_length, seq_len,
                   skip_padding, padding, num_filter, err, inferable>>

\* line 103
TransposeNCW ==
    /\ pc = "transpose"
    /\ x' = ToNCW(x)
    /\ ops' = Append(ops, "transpose")
    /\ pc' = "conv"
    /\ UNCHANGED <<config, cfgArg, cfgErr, block, data, data_length, seq_len,
                   skip_padding, padding, num_filter, err, inferable>>

\* lines 104-110
Convolve ==
    /\ pc = "conv"
    /\ x' = ConvStep(x, padding, config.kernel_width, num_filter)
    /\ inferable' = KernelFits(x, padding, config.kernel_width)
    /\ ops' = Append(ops, "Convolution")
    /\ pc' = "slice"
    /\ UNCHANGED <<config, cfgArg, cfgErr, block, data, data_length, seq_len,
                   skip_padding, padding, num_filter, err>>

\* lines 113-114
SliceLeft ==
    /\ pc = "slice"
    /\ x' = SliceStep(x, skip_padding, block.pad_type, seq_len)
    /\ ops' = IF ~skip_padding /\ block.pad_type = "left"
              THEN Append(ops, "slice_axis") ELSE ops
    /\ pc' = "act"
    /\ UNCHANGED <<config, cfgArg, cfgErr, block, data, data_length, seq_len,
                   skip_padding, padding, num_filter, err, inferable>>

\* lines 116-126
Activate ==
    /\ pc = "act"
    /\ x' = ActStep(x, config.act_type)
    /\ ops' = IF config.act_type = "glu"
              THEN ops \o <<"split", "Activation", "broadcast_mul">>
              ELSE Append(ops, "Activation")
    /\ pc' = "swap"
    /\ UNCHANGED <<config, cfgArg, cfgErr, block, data, data_length, seq_len,
                   skip_padding, padding, num_filter, err, inferable>>

\* lines 129-130
ReturnOutput ==
    /\ pc = "swap"
    /\ x' = ToBatchMajor(x)
    /\ ops' = Append(ops, "swapaxes")
    /\ pc' = "done"
    /\ UNCHANGED <<config, cfgArg, cfgErr, block, data, data_length, seq_len,
                   skip_padding, padding, num_filter, err, inferable>>

\* the caller has taken the result (or the exception) and the call's locals are
\* gone; the block can be called again
CallExit ==
    /\ pc \in {"done", "raised"}
    /\ pc' = "idle"
    /\ data' = EmptyTensor
    /\ data_length' = <<>>
    /\ seq_len' = 0
    /\ skip_padding' = FALSE
    /\ padding' = <<>>
    /\ num_filter' = 0
    /\ x' = EmptyTensor
    /\ ops' = <<>>
    /\ err' = "none"
    /\ inferable' = TRUE
    /\ UNCHANGED <<config, cfgArg, cfgErr, block>>

Lengths(batch, len) == [0 .. batch - 1 -> 0 .. len]

Next ==
    \/ \E k \in 1 .. MaxKernel, h \in 1 .. MaxHidden, a \in ActTypeArgs : ConfigInit(k, h, a)
    \/ \E p \in PadTypeArgs : BlockInit(p)
    \/ \E b \in 1 .. MaxBatch, n \in 1 .. MaxSeqLen, skip \in BOOLEAN :
          \E l \in Lengths(b, n) : CallEnter(b, n, l, skip)
    \/ DeterminePadding
    \/ SelectNumFilter
    \/ MaskData
    \/ TransposeNCW
    \/ Convolve
    \/ SliceLeft
    \/ Activate
    \/ ReturnOutput
    \/ CallExit

Spec == Init /\ [][Next]_vars

\* ------------------------------------------------------ claim vocabulary
InCall == block.made /\ pc \notin {"idle", "padding"}
IsLeft == block.pad_type = "left"
IsCentered == block.pad_type = "centered"
UnknownPad == block.pad_type \notin {"left", "centered"}
EvenCentered == IsCentered /\ config.kernel_width % 2 = 0
BadPad == UnknownPad \/ EvenCentered
PadErrors == {"SockeyeError", "ValueError"}
Batch == data.shape[1]

\* the convolution's output recomputed from the call's arguments
ConvOfData ==
    ConvStep(ToNCW(MaskStep(data, data_length)), padding, config.kernel_width, num_filter)

\* data with the element at (b, t, c) changed
Perturb(d, pb, pt, pc0) ==
    MkTensor(d.shape, LAMBDA b, t, c :
        IF b = pb /\ t = pt /\ c = pc0 THEN At(d, b, t, c) + 5 ELSE At(d, b, t, c))

\* ------------------------------------------------------------------- C1
\* C1: on a call with skip_padding false that raises nothing the output's time
\* length is seq_len: 'left' pads kernel_width-1, the convolution yields
\* seq_len+kernel_width-1 positions and the slice keeps positions [0, seq_len);
\* 'centered' (odd kernel_width) pads (kernel_width-1)/2 and the convolution
\* already yields seq_len positions.
C1_OutputLength ==
    (InCall /\ ~skip_padding /\ pc # "raised") =>
        /\ (pc = "slice" /\ IsCentered) =>
              /\ padding = <<(config.kernel_width - 1) \div 2>>
              /\ x.shape[3] = seq_len
        /\ (pc = "slice" /\ IsLeft) =>
              /\ padding = <<config.kernel_width - 1>>
              /\ x.shape[3] = seq_len + config.kernel_width - 1
        /\ (pc = "act" /\ IsCentered) => x = ConvOfData
        /\ (pc = "act" /\ IsLeft) =>
              \A b \in 0 .. Batch - 1, c \in 0 .. num_filter - 1, t \in 0 .. seq_len - 1 :
                  At(x, b, c, t) = At(ConvOfData, b, c, t)
        /\ (pc \in {"act", "swap"}) => x.shape[3] = seq_len
        /\ (pc = "done") => x.shape[2] = seq_len

C1_Witness ==
    /\ pc = "done" /\ ~skip_padding /\ IsLeft
    /\ config.kernel_width = 2 /\ seq_len = 2

\* ------------------------------------------------------------------- C2
\* C2 (as claimed): every call that returns (a symbol whose shape can be
\* inferred), whatever the pad mode, kernel_width and skip_padding, has an
\* output of shape (batch, seq_len, num_hidden).
C2_ShapeAlways ==
    (block.made /\ pc = "done" /\ inferable) =>
        x.shape = <<Batch, seq_len, config.num_hidden>>

\* ------------------------------------------------------------------- C3
\* C3: with pad mode 'left' and skip_padding false, output position t depends
\* only on input positions t-(kernel_width-1) .. t: changing the input at any
\* single position outside that window (in particular at any position > t)
\* leaves the output at t unchanged.
C3_Causal ==
    (block.made /\ pc = "done" /\ ~skip_padding /\ IsLeft) =>
        \A pb \in 0 .. Batch - 1, pt \in 0 .. seq_len - 1, pc0 \in 0 .. config.num_hidden - 1 :
            LET alt == Forward(Perturb(data, pb, pt, pc0), data_length, seq_len, skip_padding,
                               block.pad_type, config.kernel_width, config.num_hidden,
                               config.act_type)
            IN  \A t \in 0 .. seq_len - 1, c \in 0 .. config.num_hidden - 1 :
                    (pt > t \/ pt < t - (config.kernel_width - 1))
                        => At(alt, pb, t, c) = At(x, pb, t, c)

C3_Witness ==
    /\ pc = "done" /\ ~skip_padding /\ IsLeft
    /\ config.kernel_width >= 2 /\ seq_len = 2 /\ data_length[0] = 2
    /\ At(data, 0, 1, 0) # 0

\* ------------------------------------------------------------------- C4
\* C4: on a call with skip_padding false the tensor handed to the convolution
\* is zero at every (b, t, c) with t >= data_length[b] and equals the input at
\* every position with t < data_length[b].
C4_MaskedBeforeConv ==
    (block.made /\ pc = "conv" /\ ~skip_padding) =>
        /\ x.shape = <<Batch, config.num_hidden, seq_len>>
        /\ \A b \in 0 .. Batch - 1, t \in 0 .. seq_len - 1, c \in 0 .. config.num_hidden - 1 :
              At(x, b, c, t) = IF t >= data_length[b] THEN 0 ELSE At(data, b, t, c)

C4_Witness ==
    /\ pc = "conv" /\ ~skip_padding /\ Batch = 2 /\ seq_len = 2
    /\ data_length[0] = 1 /\ data_length[1] = 2
    /\ At(data, 0, 1, 0) # 0 /\ At(x, 0, 0, 1) = 0 /\ At(x, 1, 0, 1) # 0

\* ------------------------------------------------------------------- C5
\* C5 (as claimed): with skip_padding true the convolution receives the input
\* unchanged at every position, also at and beyond data_length[b].
C5_SkipBypassesMask ==
    (block.made /\ pc = "conv" /\ skip_padding) =>
        \A b \in 0 .. Batch - 1, t \in 0 .. seq_len - 1, c \in 0 .. config.num_hidden - 1 :
            At(x, b, c, t) = At(data, b, t, c)

\* ------------------------------------------------------------------- C6
\* C6: a call with skip_padding false raises if and only if the pad mode is
\* neither 'left' nor 'centered' (ValueError) or it is 'centered' with an even
\* kernel_width (the check_condition error); 'left' accepts every kernel_width
\* and 'centered' every odd one.
C6_RaisesIff ==
    (InCall /\ ~skip_padding) =>
        /\ (pc = "raised") <=> BadPad
        /\ UnknownPad => err = "ValueError"
        /\ EvenCentered => err = "SockeyeError"
        /\ ~BadPad => (err = "none" /\ inferable)

C6_Witness ==
    /\ pc = "done" /\ ~skip_padding /\ IsLeft /\ config.kernel_width % 2 = 0
    /\ err = "none"

\* ------------------------------------------------------------------- C7
\* C7: constructing a ConvolutionConfig succeeds exactly when act_type is in
\* the supported set and raises otherwise; every config that exists, and every
\* block built from it, has a supported act_type.
C7_ActTypeSupported ==
    /\ config.made => config.act_type \in CNN_ACTIVATION_TYPES
    /\ block.made => config.made
    /\ cfgArg # "" =>
          /\ config.made <=> cfgArg \in CNN_ACTIVATION_TYPES
          /\ (cfgErr = "SockeyeError") <=> cfgArg \notin CNN_ACTIVATION_TYPES
          /\ config.made => config.act_type = cfgArg

C7_Witness == cfgArg = "relu_invalid" /\ cfgErr = "SockeyeError" /\ ~config.made

\* ------------------------------------------------------------------- C8
\* C8: the convolution has 2*num_hidden filters with the gated linear unit and
\* num_hidden otherwise; the gated linear unit multiplies the first num_hidden
\* channels by the sigmoid of the last num_hidden, so the block's output has
\* config.num_hidden channels for every supported activation.
C8_Channels ==
    (InCall /\ pc # "raised") =>
        LET nf == IF config.act_type = "glu" THEN 2 * config.num_hidden ELSE config.num_hidden
        IN  /\ (pc \in {"mask", "transpose", "conv", "slice", "act"}) => num_filter = nf
            /\ (pc \in {"slice", "act"}) => x.shape[2] = nf
            /\ (pc = "swap") => x.shape[2] = config.num_hidden
            /\ (pc = "done") => x.shape[3] = config.num_hidden
            /\ (pc = "swap" /\ config.act_type = "glu") =>
                  LET conv == SliceStep(ConvOfData, skip_padding, block.pad_type, seq_len)
                  IN  \A ix \in Idx(x.shape) :
                         x.val[ix] =
                            [mul |-> At(conv, ix[1], ix[2], ix[3]),
                             by |-> [act |-> "sigmoid",
                                     of |-> At(conv, ix[1], ix[2] + config.num_hidden, ix[3])]]

C8_Witness ==
    /\ pc = "done" /\ config.act_type = "glu" /\ config.num_hidden = 2
    /\ x.shape[3] = 2

\* ------------------------------------------------------------------- C9
\* C9 (as claimed): no ConvolutionBlock with pad_type 'centered' and an even
\* kernel_width ever exists: its construction raises.
C9_NoEvenCenteredBlock == block.made => ~EvenCentered

\* C9 (amended): constructing a block with pad_type 'centered' from a config
\* with an even kernel_width succeeds; the even width is detected when the
\* block is called with skip_padding false, where the padding step raises the
\* check_condition error.
C9_DetectedAtCall ==
    (block.made /\ EvenCentered) =>
        /\ (pc \in {"idle", "padding"}) => err = "none"
        /\ (InCall /\ ~skip_padding) => (pc = "raised" /\ err = "SockeyeError")

C9_Witness ==
    /\ block.made /\ EvenCentered /\ pc = "raised" /\ err = "SockeyeError"
    /\ ~skip_padding /\ ops = <<>>

\* ------------------------------------------------------------------ C10
\* C10 (as claimed): a block with a bad pad configuration raises on every call,
\* whatever skip_padding is, before any tensor operation is built.
C10_RaisedOnEveryCall ==
    (InCall /\ BadPad) => (pc = "raised" /\ err \in PadErrors /\ ops = <<>>)

\* C10 (amended): a block with a bad pad configuration raises on every call
\* with skip_padding false, before any tensor operation is built; with
\* skip_padding true the pad configuration is not checked, no pad error is
\* raised and the tensor operations are built.
C10_RaisedUnlessSkipped ==
    /\ (InCall /\ BadPad /\ ~skip_padding) =>
          (pc = "raised" /\ err \in PadErrors /\ ops = <<>>)
    /\ (pc = "raised" /\ err \in PadErrors) => ops = <<>>
    /\ skip_padding => (pc # "raised" /\ err = "none")
    /\ (InCall /\ skip_padding /\ pc \notin {"filters", "mask"}) => ops # <<>>
    /\ (pc = "done" /\ skip_padding) =>
          ops = <<"swapaxes", "SequenceMask", "transpose", "Convolution">>
                \o (IF config.act_type = "glu"
                    THEN <<"split", "Activation", "broadcast_mul">>
                    ELSE <<"Activation">>)
                \o <<"swapaxes">>

C10_Witness ==
    /\ pc = "done" /\ skip_padding /\ UnknownPad /\ ops # <<>>
    /\ config.kernel_width > seq_len /\ ~inferable

====
